---------------------------- MODULE Spec2Model ----------------------------
(***************************************************************************)
(* A model of sticky_pi_ml/image.py: the filename identity parser, the     *)
(* container (SVG) writer and flattener, the container decoder with its    *)
(* path geometry extractor, and detector tagging.                          *)
(*                                                                         *)
(* Text is modelled as a tuple of one-character strings.  Document         *)
(* coordinates are fixed-point integers counted in micro-units (1e-6 of a  *)
(* document unit), so that the 1e-3 tolerance of the extractor is 1000.    *)
(*                                                                         *)
(* The module holds one state machine per part of the program; the         *)
(* variable `scenario` says which part a behaviour exercises.              *)
(***************************************************************************)
EXTENDS Integers, Sequences, FiniteSets, TLC

VARIABLES
    scenario,   \* which part of the program this behaviour exercises
    filename,   \* identity: the filename handed to _device_datetime_info
    idOut,      \* identity: what _device_datetime_info returned or raised
    pathData,   \* extractor: the segments svgpathtools.parse_path gives for p.attrib['d']
    svgShape,   \* extractor: (height, width) declared on the raster element
    jpgShape,   \* extractor: (height, width) of the decoded raster payload
    ctrOut,     \* extractor: what _svg_path_to_contour returned or raised
    src,        \* the in-memory source: _metadata, _annotations, pixel shape
    docName,    \* decoder: the filename of the container document
    doc,        \* decoder: the container document at that path
    dec,        \* decoder: the SVGImage built from it, or the error raised
    fs,         \* writer: the files on disk, path -> content
    last,       \* writer: the last to_svg / to_png call and how it ended
    img,        \* tagging: the Image object's _filename, _metadata and _md5
    imgFile,    \* tagging: the content of the image file at _path
    tagHist,    \* tagging: the tag_detector_version calls made so far
    pix,        \* pixel cache: the source's kind, _cached_image, _array, _shape
    backing,    \* pixel cache: the content of the source's backing store
    reads       \* pixel cache: the last read / clear_cache call

idVars == <<filename, idOut>>

pathVars == <<pathData, svgShape, jpgShape, ctrOut>>

decVars == <<src, docName, doc, dec>>

fsVars == <<fs, last>>

tagVars == <<img, imgFile, tagHist>>

cacheVars == <<pix, backing, reads>>

vars == <<scenario, filename, idOut, pathData, svgShape, jpgShape, ctrOut,
          src, docName, doc, dec, fs, last, img, imgFile, tagHist,
          pix, backing, reads>>

None == [none |-> TRUE]

\* What svgpathtools.parse_path does with a path string: it returns a list
\* of segments, or raises IndexError.
Parsed(segs) == [parsed |-> TRUE, segs |-> segs]

Unparsable == [parsed |-> FALSE, segs |-> <<>>]

\* The variables of the scenarios a behaviour does not exercise stay at rest.
IdleIdentity == filename = <<>> /\ idOut = None

IdlePath ==
    pathData = Unparsable /\ svgShape = <<1, 1>> /\ jpgShape = <<1, 1>> /\ ctrOut = None

IdleDecode == src = None /\ docName = <<>> /\ doc = None /\ dec = None

IdleSource == docName = <<>> /\ doc = None /\ dec = None

IdleFiles == fs = None /\ last = None

IdleTag == img = None /\ imgFile = 0 /\ tagHist = None

IdleCache == pix = None /\ backing = 0 /\ reads = None

-----------------------------------------------------------------------------
(* Generic helpers                                                         *)

Abs(n) == IF n < 0 THEN -n ELSE n

Max(a, b) == IF a >= b THEN a ELSE b

\* str.split(sep) for a one-character separator: n separators give n+1
\* fields, empty fields included.
Split(s, sep) ==
    LET cuts == {0} \cup {i \in 1..Len(s) : s[i] = sep} \cup {Len(s) + 1}
        Nth(k) == CHOOSE c \in cuts : Cardinality({d \in cuts : d < c}) = k
    IN [k \in 1..(Cardinality(cuts) - 1) |-> SubSeq(s, Nth(k - 1) + 1, Nth(k) - 1)]

RECURSIVE Join(_, _)
\* sep.join(fields)
Join(fields, sep) ==
    IF fields = <<>> THEN <<>>
    ELSE IF Len(fields) = 1 THEN fields[1]
    ELSE fields[1] \o <<sep>> \o Join(Tail(fields), sep)

-----------------------------------------------------------------------------
(* Image._device_datetime_info                                             *)

DecDigits == {"0", "1", "2", "3", "4", "5", "6", "7", "8", "9"}

HexDigits == DecDigits \cup {"a", "b", "c", "d", "e", "f",
                             "A", "B", "C", "D", "E", "F"}

DigitVal(c) ==
    CASE c = "0" -> 0 [] c = "1" -> 1 [] c = "2" -> 2 [] c = "3" -> 3
      [] c = "4" -> 4 [] c = "5" -> 5 [] c = "6" -> 6 [] c = "7" -> 7
      [] c = "8" -> 8 [] c = "9" -> 9

RECURSIVE DecVal(_)
\* int() of a non-empty run of decimal digits
DecVal(s) ==
    IF s = <<>> THEN 0
    ELSE DecVal(SubSeq(s, 1, Len(s) - 1)) * 10 + DigitVal(s[Len(s)])

AllDec(s) == \A i \in 1..Len(s) : s[i] \in DecDigits

RECURSIVE LStrip(_)
LStrip(s) == IF s # <<>> /\ Head(s) = " " THEN LStrip(Tail(s)) ELSE s

RECURSIVE RStrip(_)
RStrip(s) ==
    IF s # <<>> /\ s[Len(s)] = " " THEN RStrip(SubSeq(s, 1, Len(s) - 1)) ELSE s

\* The digit part of an integer literal: hexadecimal digits, single
\* underscores allowed between digits only.
HexBodyOk(d) ==
    /\ d # <<>>
    /\ \A i \in 1..Len(d) : d[i] \in HexDigits \cup {"_"}
    /\ d[1] # "_"
    /\ d[Len(d)] # "_"
    /\ \A i \in 1..(Len(d) - 1) : ~(d[i] = "_" /\ d[i + 1] = "_")

\* Whether int(s, base=16) returns (TRUE) or raises ValueError (FALSE):
\* surrounding whitespace, a sign, a 0x prefix and one underscore after the
\* prefix are accepted before the digits.
IntBase16Ok(s) ==
    LET a == RStrip(LStrip(s))
        b == IF a # <<>> /\ Head(a) \in {"+", "-"} THEN Tail(a) ELSE a
        hasPrefix == Len(b) >= 2 /\ b[1] = "0" /\ b[2] \in {"x", "X"}
        c == IF hasPrefix THEN Tail(Tail(b)) ELSE b
        d == IF hasPrefix /\ c # <<>> /\ Head(c) = "_" THEN Tail(c) ELSE c
    IN HexBodyOk(d)

IsLeap(y) == (y % 4 = 0 /\ y % 100 # 0) \/ y % 400 = 0

DaysIn(y, m) ==
    IF m = 2 THEN (IF IsLeap(y) THEN 29 ELSE 28)
    ELSE IF m \in {4, 6, 9, 11} THEN 30 ELSE 31

\* A one- or two-digit strptime field (%m %d %H %M %S): the digits between
\* two separators must be one of the directive's alternatives.
TwoDigitOk(s, lo, hi) ==
    /\ Len(s) \in {1, 2}
    /\ AllDec(s)
    /\ DecVal(s) >= lo
    /\ DecVal(s) <= hi

\* %d also accepts a space followed by one digit 1-9.
DayFieldOk(s) ==
    \/ TwoDigitOk(s, 1, 31)
    \/ (Len(s) = 2 /\ s[1] = " " /\ s[2] \in DecDigits \ {"0"})

DayVal(s) == IF s[1] = " " THEN DigitVal(s[2]) ELSE DecVal(s)

\* datetime.datetime.strptime(s, '%Y-%m-%d_%H-%M-%S'): the record of the
\* parsed fields, or None where strptime raises ValueError.
Strptime(s) ==
    LET halves == Split(s, "_")
        dpart == Split(halves[1], "-")
        tpart == Split(halves[2], "-")
    IN IF Len(halves) # 2 THEN None
       ELSE IF Len(dpart) # 3 \/ Len(tpart) # 3 THEN None
       ELSE IF ~(/\ Len(dpart[1]) = 4 /\ AllDec(dpart[1])
                 /\ TwoDigitOk(dpart[2], 1, 12)
                 /\ DayFieldOk(dpart[3])
                 /\ TwoDigitOk(tpart[1], 0, 23)
                 /\ TwoDigitOk(tpart[2], 0, 59)
                 /\ TwoDigitOk(tpart[3], 0, 61)) THEN None
       ELSE LET y == DecVal(dpart[1])
                m == DecVal(dpart[2])
                d == DayVal(dpart[3])
                sec == DecVal(tpart[3])
            IN IF y < 1 \/ d > DaysIn(y, m) \/ sec > 59 THEN None
               ELSE [year |-> y, month |-> m, day |-> d,
                     hour |-> DecVal(tpart[1]), minute |-> DecVal(tpart[2]),
                     second |-> sec]

\* Lines 154-159: the length test, then int(device, base=16).
DeviceFieldOk(device) ==
    Len(device) = 8 /\ IntBase16Ok(device)

\* Line 150.
FieldCountOk(fields) == Len(fields) = 3

DeviceDatetimeInfo(fname) ==
    LET fields == Split(fname, ".")
    IN IF ~FieldCountOk(fields)
       THEN [ok |-> FALSE, error |-> "Wrong file name, three dot-separated fields expected"]
       ELSE IF ~DeviceFieldOk(fields[1])
       THEN [ok |-> FALSE, error |-> "Invalid device name field in file"]
       ELSE IF Strptime(fields[2]) = None
       THEN [ok |-> FALSE, error |-> "Could not retrieve datetime from filename"]
       ELSE [ok |-> TRUE, device |-> fields[1],
             datetime |-> Strptime(fields[2]), filename |-> fname]

\* --- the filenames the identity scenario draws from ---

MaxFields == 4

DeviceFields ==
    { <<"5", "c", "1", "7", "3", "f", "f", "2">>,
      <<"Z", "Z", "Z", "Z", "Z", "Z", "Z", "Z">>,
      <<"5", "c", "1", "7", "3", "f", "f">>,
      <<"5", "c", "1", "7", "3", "f", "f", "2", "a">>,
      <<"0", "x", "1", "7", "3", "f", "f", "2">>,
      <<"+", "c", "1", "7", "3", "f", "f", "2">>,
      <<"5", "c", "1", "7", "_", "f", "f", "2">>,
      <<" ", "c", "1", "7", "3", "f", "f", "2">>,
      <<"5", "c", "1", "7", "_", "_", "f", "2">>,
      <<>> }

TimeFields ==
    { <<"2", "0", "2", "0", "-", "0", "6", "-", "2", "0", "_", "2", "1", "-", "3", "3", "-", "2", "4">>,
      <<"2", "0", "2", "0", "-", "6", "-", "2", "0", "_", "2", "1", "-", "3", "3", "-", "2", "4">>,
      <<"2", "0", "2", "0", "-", "0", "6", "-", "2", "0">>,
      <<"2", "0", "2", "0", "-", "1", "3", "-", "2", "0", "_", "2", "1", "-", "3", "3", "-", "2", "4">>,
      <<"2", "0", "2", "0", "-", "0", "2", "-", "3", "0", "_", "2", "1", "-", "3", "3", "-", "2", "4">>,
      <<"2", "0", "2", "0", "-", "0", "6", "-", "2", "0", "_", "2", "4", "-", "3", "3", "-", "2", "4">>,
      <<"2", "0", "-", "0", "6", "-", "2", "0", "_", "2", "1", "-", "3", "3", "-", "2", "4">>,
      <<"2", "0", "2", "0", "_", "0", "6", "-", "2", "0", "_", "2", "1", "-", "3", "3", "-", "2", "4">>,
      <<"2", "0", "2", "0", "-", "0", "6", "-", " ", "2", "_", "2", "1", "-", "3", "3", "-", "4">> }

ExtFields ==
    { <<"j", "p", "g">>,
      <<"s", "v", "g">> }

GoodDevice == <<"5", "c", "1", "7", "3", "f", "f", "2">>

GoodTime ==
    <<"2", "0", "2", "0", "-", "0", "6", "-", "2", "0", "_", "2", "1", "-", "3", "3", "-", "2", "4">>

GoodFilename == Join(<<GoodDevice, GoodTime, <<"j", "p", "g">> >>, ".")

\* Three-field names over every device and timestamp field, and names of
\* 1..MaxFields fields built from well-formed fields.
Filenames ==
    { Join(<<d, t, e>>, ".") : d \in DeviceFields, t \in TimeFields, e \in ExtFields }
    \cup UNION { { Join(fl, ".") : fl \in [1..k -> {GoodDevice, GoodTime, <<"j", "p", "g">>}] }
                 : k \in 1..MaxFields }

InitIdentity ==
    /\ scenario = "identity"
    /\ filename \in Filenames
    /\ idOut = None
    /\ IdlePath
    /\ IdleDecode
    /\ IdleFiles
    /\ IdleTag
    /\ IdleCache

ParseIdentity ==
    /\ scenario = "identity"
    /\ idOut = None
    /\ idOut' = DeviceDatetimeInfo(filename)
    /\ UNCHANGED <<scenario, filename, pathVars, decVars, fsVars, tagVars, cacheVars>>

SpecIdentity == InitIdentity /\ [][ParseIdentity]_vars

-----------------------------------------------------------------------------
(* C3: parseIdentity fails exactly on the filenames that do not have three *)
(* dot-separated fields, or whose first field is not 8 hexadecimal         *)
(* characters, or whose second field does not match YYYY-MM-DD_HH-MM-SS,   *)
(* and otherwise returns the first field as device and the parsed second   *)
(* field as datetime.                                                      *)

\* The second field read as the fixed pattern YYYY-MM-DD_HH-MM-SS: four,
\* two, two, two, two and two digits naming a date and a time of day.
MatchesTimestampPattern(s) ==
    /\ Len(s) = 19
    /\ \A i \in {1, 2, 3, 4, 6, 7, 9, 10, 12, 13, 15, 16, 18, 19} : s[i] \in DecDigits
    /\ s[5] = "-" /\ s[8] = "-" /\ s[11] = "_" /\ s[14] = "-" /\ s[17] = "-"
    /\ Strptime(s) # None

WellFormedName(fname) ==
    LET fields == Split(fname, ".")
    IN /\ Len(fields) = 3
       /\ Len(fields[1]) = 8
       /\ \A i \in 1..Len(fields[1]) : fields[1][i] \in HexDigits
       /\ MatchesTimestampPattern(fields[2])

C3_ParseIdentityExact ==
    idOut # None =>
        /\ idOut.ok <=> WellFormedName(filename)
        /\ idOut.ok => /\ idOut.device = Split(filename, ".")[1]
                       /\ idOut.datetime = Strptime(Split(filename, ".")[2])

-----------------------------------------------------------------------------
(* SVGImage._svg_path_to_contour                                           *)
(*                                                                         *)
(* A point is <<re, im>> in micro-units; a segment is [start, end].  With  *)
(* n_point_per_segment = 2, tvals is (0, 1) and s.poly()(tvals) is the     *)
(* segment's start and end point.  The model computes in exact arithmetic. *)

\* 1e-3 document units (line 487), in micro-units.
Tolerance == 1000

Micro == Tolerance * 1000

\* The integer square root, for n >= 0 small enough to be squared.
ISqrt(n) == CHOOSE r \in 0..(2 * Tolerance) : r * r <= n /\ n < (r + 1) * (r + 1)

\* np.abs of the complex difference a - b, rounded down to a micro-unit.
\* A difference beyond the tolerance on one axis is reported as that axis'
\* difference, which is already beyond the tolerance.
Magnitude(a, b) ==
    LET dx == Abs(a[1] - b[1])
        dy == Abs(a[2] - b[2])
    IN IF dx > Tolerance \/ dy > Tolerance THEN Max(dx, dy)
       ELSE ISqrt(dx * dx + dy * dy)

\* last_end before the first segment (None in the code).
NoPoint == <<>>

\* A variant of the split test that opens a sub-path only at the first segment.
StartsSubPathFirstOnly(seg, lastEnd) == lastEnd = NoPoint

\* Line 472: i.start != last_end, an exact comparison.
StartsSubPath(seg, lastEnd) == seg.start # lastEnd

RECURSIVE SubPathsFrom(_, _, _, _)
\* Lines 469-475: the loop over the path's segments from index i on.
SubPathsFrom(path, i, lastEnd, acc) ==
    IF i > Len(path) THEN acc
    ELSE LET opened == IF StartsSubPath(path[i], lastEnd)
                       THEN Append(acc, <<>>) ELSE acc
             added == [opened EXCEPT ![Len(opened)] = Append(@, path[i])]
         IN SubPathsFrom(path, i + 1, path[i].end, added)

SubPaths(path) == SubPathsFrom(path, 1, NoPoint, <<>>)

RECURSIVE SumSeq(_)
SumSeq(s) == IF s = <<>> THEN 0 ELSE Head(s) + SumSeq(Tail(s))

\* Lines 480-485: the sum over adjacent segments of a sub-path of the
\* distance between the earlier one's end and the later one's start.
SumMagnitude(sp) ==
    SumSeq([k \in 1..(Len(sp) - 1) |-> Magnitude(sp[k].end, sp[k + 1].start)])

\* np.round of n / d for d > 0: to the nearest integer, a tie to the even one.
RoundDiv(n, d) ==
    LET q == n \div d
        r == n % d
    IN IF 2 * r < d THEN q
       ELSE IF 2 * r > d THEN q + 1
       ELSE IF q % 2 = 0 THEN q ELSE q + 1

\* Line 432: np.array(svg_im_shape) / np.array(jpg_im_shape[0:2]), each
\* ratio kept as <<numerator, denominator>>.
ScaleInSvg(svg, jpg) == << <<svg[1], jpg[1]>>, <<svg[2], jpg[2]>> >>

\* A document coordinate c divided by a ratio, then rounded.
Unscale(c, ratio) == RoundDiv(c * ratio[2], ratio[1] * Micro)

\* Lines 489-492: the start point of every segment of the sub-path, the
\* real part divided by scale[0] and the imaginary part by scale[1].
Contour(sp, scale) ==
    [k \in 1..Len(sp) |-> <<Unscale(sp[k].start[1], scale[1]),
                            Unscale(sp[k].start[2], scale[2])>>]

RECURSIVE KeepContours(_)
\* Lines 494-497: a contour of 2 points or fewer is dropped.
KeepContours(cs) ==
    IF cs = <<>> THEN <<>>
    ELSE (IF Len(Head(cs)) > 2 THEN <<Head(cs)>> ELSE <<>>) \o KeepContours(Tail(cs))

\* Lines 460-498.
SvgPathToContour(d, scale) ==
    IF ~d.parsed THEN [ok |-> TRUE, contours |-> <<>>]
    ELSE LET subs == SubPaths(d.segs)
         IN IF \E j \in 1..Len(subs) : SumMagnitude(subs[j]) > Tolerance
            THEN [ok |-> FALSE, error |-> "SVG path interrupted"]
            ELSE [ok |-> TRUE,
                  contours |-> KeepContours([j \in 1..Len(subs) |-> Contour(subs[j], scale)])]

\* --- the paths and sizes the extractor scenario draws from ---

MaxSegs == 4

PA == <<0, 0>>

PB == <<4 * Micro, 4 * Micro>>

PBnear == <<4 * Micro + 1, 4 * Micro>>

PBfar == <<4 * Micro + 2 * Tolerance, 4 * Micro>>

PC == <<3 * Micro, 5 * Micro>>

PD == <<6 * Micro, 0>>

Seg(a, b) == [start |-> a, end |-> b]

Segments ==
    { Seg(PA, PB), Seg(PB, PC), Seg(PC, PA), Seg(PBnear, PC), Seg(PBfar, PC),
      Seg(PC, PD), Seg(PD, PA), Seg(PD, PB) }

PathInputs ==
    {Unparsable} \cup { Parsed(segs) : segs \in UNION { [1..n -> Segments] : n \in 1..MaxSegs } }

SvgShapes == { <<2, 2>>, <<4, 4>>, <<2, 4>>, <<3, 2>> }

JpgShapes == { <<2, 2>>, <<1, 2>> }

InitPath ==
    /\ scenario = "path"
    /\ pathData \in PathInputs
    /\ svgShape \in SvgShapes
    /\ jpgShape \in JpgShapes
    /\ ctrOut = None
    /\ IdleIdentity
    /\ IdleDecode
    /\ IdleFiles
    /\ IdleTag
    /\ IdleCache

ExtractContours ==
    /\ scenario = "path"
    /\ ctrOut = None
    /\ ctrOut' = SvgPathToContour(pathData, ScaleInSvg(svgShape, jpgShape))
    /\ UNCHANGED <<scenario, idVars, pathData, svgShape, jpgShape, decVars, fsVars, tagVars, cacheVars>>

SpecPath == InitPath /\ [][ExtractContours]_vars

-----------------------------------------------------------------------------
(* C4 as stated: extractContours fails for every path with two consecutive *)
(* segments whose end and start differ by more than 1e-3 document units,   *)
(* and does not fail when they differ by 1e-6.                             *)

\* The distance between the end of segment k and the start of segment k+1.
Gap(path, k) == Magnitude(path[k].end, path[k + 1].start)

Gaps(path) == { k \in 1..(Len(path) - 1) : path[k].end # path[k + 1].start }

HasWideGap(path) == \E k \in Gaps(path) : Gap(path, k) > Tolerance

OnlyTinyGaps(path) == Gaps(path) # {} /\ \A k \in Gaps(path) : Gap(path, k) <= 1

C4_DiscontinuityFails ==
    (ctrOut # None /\ pathData.parsed) =>
        /\ HasWideGap(pathData.segs) => ~ctrOut.ok
        /\ OnlyTinyGaps(pathData.segs) => ctrOut.ok

(* C4 as amended: extractContours does not fail on a discontinuity, wide   *)
(* or tiny: every consecutive pair of segments whose end and start differ  *)
(* at all opens a new sub-path, so that the path yields one sub-path more  *)
(* than it has discontinuities.                                            *)
C4_DiscontinuitySplits ==
    (ctrOut # None /\ pathData.parsed) =>
        /\ ctrOut.ok
        /\ Len(SubPaths(pathData.segs)) = Cardinality(Gaps(pathData.segs)) + 1

C4_Witness ==
    /\ ctrOut # None
    /\ pathData.parsed
    /\ HasWideGap(pathData.segs)
    /\ ctrOut.ok
    /\ Len(ctrOut.contours) = 1

-----------------------------------------------------------------------------
(* C5: every decoded contour point is the anchor with its horizontal       *)
(* coordinate divided by W_decl/W_true and its vertical coordinate divided *)
(* by H_decl/H_true, then rounded, whatever the two ratios are.            *)

\* Shapes are (height, width): the horizontal ratio is the second entry's.
PerAxisContour(sp, svg, jpg) ==
    [k \in 1..Len(sp) |-> <<Unscale(sp[k].start[1], <<svg[2], jpg[2]>>),
                            Unscale(sp[k].start[2], <<svg[1], jpg[1]>>)>>]

C5_PerAxisScale ==
    (ctrOut # None /\ pathData.parsed /\ ctrOut.ok) =>
        LET subs == SubPaths(pathData.segs)
        IN ctrOut.contours =
               KeepContours([j \in 1..Len(subs) |-> PerAxisContour(subs[j], svgShape, jpgShape)])

-----------------------------------------------------------------------------
(* Python values and the metadata literal                                  *)
(*                                                                         *)
(* A value is [t, v]: an int, a str, a dict, or a datetime.datetime.  A    *)
(* dict is a function over Keys whose missing keys map to Absent.  The     *)
(* text str() gives for a value, and literal_eval reads, is a syntax tree  *)
(* [n, v]: a number, a string in single or double quotes, a dict display,  *)
(* or a call such as datetime.datetime(2020, 6, 20, 21, 33, 24).           *)

Keys == {"Make", "Model", "temp", "md5", "device", "datetime", "filename",
         "algo_name", "algo_version"}

Absent == [t |-> "absent", v |-> ""]

PyInt(n) == [t |-> "int", v |-> n]

PyStr(str) == [t |-> "str", v |-> str]

\* A str held as a tuple of characters (a filename, a device id).
PyText(chars) == [t |-> "text", v |-> chars]

PyDatetime(r) == [t |-> "datetime", v |-> r]

PyDict(f) == [t |-> "dict", v |-> f]

EmptyDict == [k \in Keys |-> Absent]

HasKey(d, k) == d[k].t # "absent"

KeysOf(d) == { k \in Keys : HasKey(d, k) }

\* The strings of the model that hold an apostrophe and no double quote.
WithApostrophe == {"it's"}

NoItem == [n |-> "noitem", v |-> ""]

EmptyText == [n |-> "empty", v |-> ""]

Garbage == [n |-> "garbage", v |-> ""]

RECURSIVE PyRepr(_)
\* repr(): a str is quoted with ' unless it holds a ' (and no "), a
\* datetime prints as a constructor call.
PyRepr(x) ==
    IF x.t = "dict"
    THEN [n |-> "dictlit",
          v |-> [k \in Keys |-> IF HasKey(x.v, k) THEN PyRepr(x.v[k]) ELSE NoItem]]
    ELSE IF x.t = "int" THEN [n |-> "num", v |-> x.v]
    ELSE IF x.t = "str"
    THEN [n |-> IF x.v \in WithApostrophe THEN "dqstr" ELSE "sqstr", v |-> x.v]
    ELSE IF x.t = "text" THEN [n |-> "sqtext", v |-> x.v]
    ELSE [n |-> "call", v |-> x.v]

RECURSIVE HasNode(_, _)
\* Whether the text holds a node of one of the given kinds.
HasNode(text, kinds) ==
    \/ text.n \in kinds
    \/ text.n = "dictlit" /\ \E k \in Keys : HasNode(text.v[k], kinds)

RECURSIVE LiteralValue(_)
\* The value of a text made of literals only.
LiteralValue(text) ==
    IF text.n = "dictlit"
    THEN PyDict([k \in Keys |-> IF text.v[k].n = "noitem" THEN Absent
                                ELSE LiteralValue(text.v[k])])
    ELSE IF text.n = "num" THEN PyInt(text.v)
    ELSE IF text.n = "sqtext" THEN PyText(text.v)
    ELSE PyStr(text.v)

\* ast.literal_eval: SyntaxError on text that is no expression, ValueError
\* on an expression that is not a literal, the value otherwise.
LiteralEval(text) ==
    IF HasNode(text, {"empty", "garbage"}) THEN [ok |-> FALSE, error |-> "SyntaxError"]
    ELSE IF HasNode(text, {"call"}) THEN [ok |-> FALSE, error |-> "ValueError"]
    ELSE [ok |-> TRUE, value |-> LiteralValue(text)]

\* Whether the text can stand between the double quotes of an XML
\* attribute written without escaping: a double quote in it ends the
\* attribute early and leaves a document that is not well-formed.
AttributeSafe(text) == ~HasNode(text, {"dqstr"})

-----------------------------------------------------------------------------
(* The container document                                                  *)
(*                                                                         *)
(* doc = [wellFormed, images, stickies, paths].  An attribute is           *)
(* [has, val].  An image element holds its attributes and its payload:     *)
(* the (height, width) of the decoded bitmap.  A sticky element holds a    *)
(* metadata attribute.  A path element holds style, the list of the        *)
(* ';'-separated items of its style attribute each split at ':', and d.    *)

NoAttr == [has |-> FALSE, val |-> 0]

NoTextAttr == [has |-> FALSE, val |-> EmptyText]

Attr(v) == [has |-> TRUE, val |-> v]

Fail(e) == [ok |-> FALSE, error |-> e]

\* Lines 416-421.
DeclaredWidth(attrs) ==
    IF attrs.w.has THEN [ok |-> TRUE, val |-> attrs.w.val]
    ELSE IF attrs.width.has THEN [ok |-> TRUE, val |-> attrs.width.val]
    ELSE Fail("Embedded image does not have width")

\* Lines 423-428: the second test reads 'width', then attrib['height'].
DeclaredHeight(attrs) ==
    IF attrs.h.has THEN [ok |-> TRUE, val |-> attrs.h.val]
    ELSE IF attrs.width.has
    THEN (IF attrs.height.has THEN [ok |-> TRUE, val |-> attrs.height.val]
          ELSE Fail("KeyError: 'height'"))
    ELSE Fail("Embedded image does not have height")

\* Lines 434-448: the text to evaluate, or the early return with {} where
\* neither a desc attribute nor one legacy element with metadata is found.
MetadataText(d) ==
    LET desc == d.images[1].attrs.desc
    IN IF desc.has
       THEN (IF desc.val = EmptyText THEN Fail("Empty desc field")
             ELSE [ok |-> TRUE, found |-> TRUE, text |-> desc.val])
       ELSE IF Len(d.stickies) # 1 \/ ~d.stickies[1].metadata.has
       THEN [ok |-> TRUE, found |-> FALSE, text |-> EmptyText]
       ELSE [ok |-> TRUE, found |-> TRUE, text |-> d.stickies[1].metadata.val]

\* Lines 450-458: literal_eval, whose ValueError is logged and leaves
\* _metadata as Image.__init__ set it (None), then self._metadata['Make'].
EvalMetadata(text) ==
    LET ev == LiteralEval(text)
    IN IF ~ev.ok /\ ev.error = "SyntaxError" THEN Fail("SyntaxError")
       ELSE IF ~ev.ok THEN Fail("TypeError: 'NoneType' object is not subscriptable")
       ELSE IF ev.value.t # "dict" THEN Fail("TypeError: not subscriptable")
       ELSE IF ~HasKey(ev.value.v, "Make") THEN Fail("KeyError: 'Make'")
       ELSE [ok |-> TRUE, metadata |-> ev.value.v]

\* Lines 408-458: _parse_metadata, giving _metadata and _scale_in_svg.
ParseMetadata(d) ==
    IF ~d.wellFormed THEN Fail("ParseError")
    ELSE IF Len(d.images) # 1 THEN Fail("Cannot extract image")
    ELSE LET im == d.images[1]
             w == DeclaredWidth(im.attrs)
             h == DeclaredHeight(im.attrs)
             txt == MetadataText(d)
         IN IF ~w.ok THEN w
            ELSE IF ~h.ok THEN h
            ELSE IF ~im.payload.decodable
            THEN Fail("AttributeError: 'NoneType' object has no attribute 'shape'")
            ELSE IF ~txt.ok THEN txt
            ELSE LET scale == ScaleInSvg(<<h.val, w.val>>, im.payload.shape)
                 IN IF ~txt.found
                    THEN [ok |-> TRUE, metadata |-> EmptyDict, scale |-> scale]
                    ELSE LET ev == EvalMetadata(txt.text)
                         IN IF ~ev.ok THEN ev
                            ELSE [ok |-> TRUE, metadata |-> ev.metadata, scale |-> scale]

\* Lines 388-394: every item of the style must split at ':' in two.
StyleOk(style) == \A i \in 1..Len(style) : Len(style[i]) = 2

HasStroke(style) == \E i \in 1..Len(style) : style[i][1] = "stroke"

\* The last item of a key wins, as in the dict the loop fills.
Stroke(style) ==
    style[CHOOSE i \in 1..Len(style) :
              /\ style[i][1] = "stroke"
              /\ \A j \in (i + 1)..Len(style) : style[j][1] # "stroke"][2]

RECURSIVE ParseAnnotationsFrom(_, _, _, _)
\* Lines 396-406: the loop over the path elements from index i on.
ParseAnnotationsFrom(paths, i, scale, acc) ==
    IF i > Len(paths) THEN [ok |-> TRUE, annotations |-> acc]
    ELSE LET p == paths[i]
             cs == SvgPathToContour(p.d, scale)
         IN IF ~StyleOk(p.style) THEN Fail("ValueError: unpack")
            ELSE IF ~cs.ok THEN cs
            ELSE IF cs.contours # <<>> /\ ~HasStroke(p.style) THEN Fail("KeyError: 'stroke'")
            ELSE ParseAnnotationsFrom(paths, i + 1, scale,
                     acc \o [k \in 1..Len(cs.contours) |->
                                [contour |-> cs.contours[k], stroke |-> Stroke(p.style)]])

\* Lines 371-377 with Image.__init__ (lines 129-139).
SVGImage(name, d) ==
    LET info == DeviceDatetimeInfo(name)
        meta == ParseMetadata(d)
        ann == ParseAnnotationsFrom(d.paths, 1, meta.scale, <<>>)
    IN IF ~info.ok THEN Fail(info.error)
       ELSE IF ~meta.ok THEN meta
       ELSE IF ~ann.ok THEN ann
       ELSE [ok |-> TRUE, device |-> info.device, datetime |-> info.datetime,
             metadata |-> meta.metadata, scale |-> meta.scale,
             annotations |-> ann.annotations]

-----------------------------------------------------------------------------
(* Image.tag_detector_version and Image.to_svg                             *)

\* Lines 184-187, once the md5 property has given `hash`: the metadata
\* updated with the hash, the identity read from the filename, and the
\* algorithm's name and version.
TagMetadata(meta, hash, fname, name, version) ==
    LET info == DeviceDatetimeInfo(fname)
    IN [meta EXCEPT !["md5"] = hash,
                    !["device"] = PyText(info.device),
                    !["datetime"] = PyDatetime(info.datetime),
                    !["filename"] = PyText(info.filename),
                    !["algo_name"] = PyStr(name),
                    !["algo_version"] = PyStr(version)]

\* A contour point, in pixels, as a document point at the declared scale.
DocPoint(p) == <<p[1] * Micro, p[2] * Micro>>

\* Annotation.svg_element: a stroke-coloured path whose d draws the polygon
\* as straight segments through the contour's points and back to the first.
SvgElement(a) ==
    LET n == Len(a.contour)
    IN [style |-> << <<"stroke", a.stroke>> >>,
        d |-> Parsed([k \in 1..n |-> Seg(DocPoint(a.contour[k]),
                                         DocPoint(a.contour[(k % n) + 1]))])]

\* Lines 302-326: the document to_svg writes for a source.  The image
\* element declares the bitmap's own width and height and carries
\* str(self.metadata) between double quotes.
ToSvgDocument(source, embedJpeg, includeMetadata) ==
    LET text == PyRepr(PyDict(source.metadata))
        image == [attrs |-> [w |-> NoAttr, h |-> NoAttr,
                             width |-> Attr(source.shape[2]),
                             height |-> Attr(source.shape[1]),
                             desc |-> IF includeMetadata THEN Attr(text) ELSE NoTextAttr],
                  payload |-> [decodable |-> TRUE, shape |-> source.shape]]
    IN [wellFormed |-> (embedJpeg /\ includeMetadata) => AttributeSafe(text),
        images |-> IF embedJpeg THEN <<image>> ELSE <<>>,
        stickies |-> <<>>,
        paths |-> [k \in 1..Len(source.annotations) |-> SvgElement(source.annotations[k])]]

\* --- the sources, names and documents the decoder scenarios draw from ---

MaxAnnot == 2

MaxImages == 2

Triangle == << <<1, 1>>, <<3, 1>>, <<3, 3>> >>

Square == << <<1, 1>>, <<3, 1>>, <<3, 3>>, <<1, 3>> >>

Annotations ==
    { [contour |-> Triangle, stroke |-> "#ff0000"],
      [contour |-> Square, stroke |-> "#0000ff"],
      [contour |-> Square, stroke |-> "#ff0000"] }

AnnotationLists == UNION { [1..n -> Annotations] : n \in 0..MaxAnnot }

\* What _decode_metadata gives for a photograph whose Make holds the
\* custom literal.
ExifMeta ==
    [EmptyDict EXCEPT !["Make"] = PyDict([EmptyDict EXCEPT !["temp"] = PyInt(21)]),
                      !["Model"] = PyStr("cam")]

\* The same for a photograph whose Make is a plain maker's name.
PlainMakeMeta == [ExifMeta EXCEPT !["Make"] = PyStr("RaspberryPi")]

QuoteMeta == [ExifMeta EXCEPT !["Model"] = PyStr("it's")]

TaggedMeta == TagMetadata(ExifMeta, PyStr("9e107d9d"), GoodFilename, "uid", "v1")

MetaMaps == {ExifMeta, PlainMakeMeta, QuoteMeta, TaggedMeta, EmptyDict}

Sources ==
    { [metadata |-> m, annotations |-> a, shape |-> <<2, 4>>] :
          m \in MetaMaps, a \in AnnotationLists }

GoodDocName == Join(<<GoodDevice, GoodTime, <<"s", "v", "g">> >>, ".")

DocNames == {GoodDocName, <<"b", "a", "d", ".", "s", "v", "g">>}

SizeAttrs ==
    [w : {NoAttr, Attr(4)}, width : {NoAttr, Attr(8)},
     h : {NoAttr, Attr(4)}, height : {NoAttr, Attr(8)}]

DescAttrs ==
    {NoTextAttr, Attr(EmptyText), Attr(PyRepr(PyDict(ExifMeta))),
     Attr(PyRepr(PyDict(EmptyDict))), Attr(PyRepr(PyDict(TaggedMeta))), Attr(Garbage)}

ImageElements ==
    { [attrs |-> [w |-> sz.w, width |-> sz.width, h |-> sz.h, height |-> sz.height,
                  desc |-> ds],
       payload |-> [decodable |-> TRUE, shape |-> <<2, 4>>]] :
          sz \in SizeAttrs, ds \in DescAttrs }
    \cup { [attrs |-> [w |-> Attr(4), width |-> NoAttr, h |-> Attr(4), height |-> NoAttr,
                       desc |-> NoTextAttr],
            payload |-> [decodable |-> FALSE, shape |-> <<0, 0>>]] }

StickyLists ==
    { <<>>,
      << [metadata |-> Attr(PyRepr(PyDict(ExifMeta)))] >>,
      << [metadata |-> NoTextAttr] >>,
      << [metadata |-> Attr(PyRepr(PyDict(ExifMeta)))],
         [metadata |-> Attr(PyRepr(PyDict(ExifMeta)))] >> }

PathLists ==
    { <<>>, << SvgElement([contour |-> Square, stroke |-> "#ff0000"]) >> }

\* Documents of 0..MaxImages raster elements; beyond the first, the
\* elements repeat the first.
DocInputs ==
    { [wellFormed |-> TRUE, images |-> [k \in 1..n |-> im], stickies |-> st, paths |-> ps] :
          n \in 0..MaxImages, im \in ImageElements, st \in StickyLists, ps \in PathLists }

InitDecode ==
    /\ scenario = "decode"
    /\ src = None
    /\ docName \in DocNames
    /\ doc \in DocInputs
    /\ dec = None
    /\ IdleIdentity
    /\ IdlePath
    /\ IdleFiles
    /\ IdleTag
    /\ IdleCache

InitRoundTrip ==
    /\ scenario = "roundtrip"
    /\ src \in Sources
    /\ docName = GoodDocName
    /\ doc = None
    /\ dec = None
    /\ IdleIdentity
    /\ IdlePath
    /\ IdleFiles
    /\ IdleTag
    /\ IdleCache

\* to_svg(target) with the bitmap and the metadata included, all steps
\* succeeding.
WriteContainer ==
    /\ scenario = "roundtrip"
    /\ doc = None
    /\ doc' = ToSvgDocument(src, TRUE, TRUE)
    /\ UNCHANGED <<scenario, idVars, pathVars, src, docName, dec, fsVars, tagVars, cacheVars>>

\* SVGImage(path) on the document at path.
DecodeContainer ==
    /\ scenario \in {"decode", "roundtrip", "paths"}
    /\ doc # None
    /\ dec = None
    /\ dec' = SVGImage(docName, doc)
    /\ UNCHANGED <<scenario, idVars, pathVars, src, docName, doc, fsVars, tagVars, cacheVars>>

\* --- the path elements the annotation scenario draws from ---

MaxPaths == 2

RedStroke == << <<"stroke", "#ff0000">> >>

\* A closed square, as the writer draws it.
SquarePath == SvgElement([contour |-> Square, stroke |-> "#ff0000"]).d

\* Two connected segments: a contour of 2 points.
TwoPointPath == Parsed(<<Seg(PA, PB), Seg(PB, PC)>>)

PathElements ==
    { [style |-> RedStroke, d |-> SquarePath],
      [style |-> << <<"stroke", "#0000ff">>, <<"fill", "none">> >>, d |-> SquarePath],
      [style |-> RedStroke, d |-> Unparsable],
      [style |-> RedStroke, d |-> TwoPointPath],
      [style |-> RedStroke, d |-> Parsed(<<>>)],
      [style |-> << <<"stroke">> >>, d |-> SquarePath],
      [style |-> << <<"fill", "none">> >>, d |-> SquarePath],
      [style |-> << <<"fill", "none">> >>, d |-> TwoPointPath] }

\* One raster element of declared size and decodable payload, no metadata.
PlainImageElement ==
    [attrs |-> [w |-> Attr(4), width |-> NoAttr, h |-> Attr(2), height |-> NoAttr,
                desc |-> NoTextAttr],
     payload |-> [decodable |-> TRUE, shape |-> <<2, 4>>]]

PathDocInputs ==
    { [wellFormed |-> TRUE, images |-> <<PlainImageElement>>, stickies |-> <<>>, paths |-> ps] :
          ps \in UNION { [1..n -> PathElements] : n \in 0..MaxPaths } }

InitPaths ==
    /\ scenario = "paths"
    /\ src = None
    /\ docName = GoodDocName
    /\ doc \in PathDocInputs
    /\ dec = None
    /\ IdleIdentity
    /\ IdlePath
    /\ IdleFiles
    /\ IdleTag
    /\ IdleCache

SpecPaths == InitPaths /\ [][DecodeContainer]_vars

SpecDecode == InitDecode /\ [][DecodeContainer]_vars

SpecRoundTrip == InitRoundTrip /\ [][WriteContainer \/ DecodeContainer]_vars

-----------------------------------------------------------------------------
(* C2: writing a source with to_svg (bitmap and metadata included) and     *)
(* decoding the written document gives back the source's metadata and its  *)
(* annotations in order, with their colours, every contour coordinate      *)
(* within 1 unit.                                                          *)

SameContour(c1, c2) ==
    /\ Len(c1) = Len(c2)
    /\ \A k \in 1..Len(c1) : Abs(c1[k][1] - c2[k][1]) <= 1 /\ Abs(c1[k][2] - c2[k][2]) <= 1

C2_RoundTrip ==
    (scenario = "roundtrip" /\ dec # None) =>
        /\ dec.ok
        /\ dec.metadata = src.metadata
        /\ Len(dec.annotations) = Len(src.annotations)
        /\ \A i \in 1..Len(src.annotations) :
               /\ dec.annotations[i].stroke = src.annotations[i].stroke
               /\ SameContour(dec.annotations[i].contour, src.annotations[i].contour)

-----------------------------------------------------------------------------
(* C6: a document whose raster element has an empty description field, or *)
(* no description field and no legacy metadata element, decodes to an      *)
(* empty metadata map and does not fail.                                   *)

\* A document the decoder has no other reason to reject: a well-formed
\* name, one raster element with a declared size and a decodable payload.
Decodable(name, d) ==
    /\ DeviceDatetimeInfo(name).ok
    /\ Len(d.images) = 1
    /\ DeclaredWidth(d.images[1].attrs).ok
    /\ DeclaredHeight(d.images[1].attrs).ok
    /\ d.images[1].payload.decodable

EmptyDesc(d) == d.images[1].attrs.desc = Attr(EmptyText)

NoDescNoLegacy(d) == ~d.images[1].attrs.desc.has /\ d.stickies = <<>>

C6_EmptyMetadataTolerated ==
    (scenario = "decode" /\ dec # None /\ Decodable(docName, doc)
        /\ (EmptyDesc(doc) \/ NoDescNoLegacy(doc))) =>
        /\ dec.ok
        /\ dec.metadata = EmptyDict

-----------------------------------------------------------------------------
(* C10: decoding fails when the document has zero or several raster        *)
(* elements, or when its raster element declares no width or no height;    *)
(* an element that declares a width (w or width) and a height (h or        *)
(* height) is not rejected for its size, whichever names it uses.          *)

SizeErrors ==
    {"Embedded image does not have width", "Embedded image does not have height",
     "KeyError: 'height'"}

C10_RasterElementCheck ==
    (scenario = "decode" /\ dec # None /\ DeviceDatetimeInfo(docName).ok) =>
        /\ Len(doc.images) # 1 => ~dec.ok
        /\ Len(doc.images) = 1 =>
               LET a == doc.images[1].attrs
               IN /\ ~(a.w.has \/ a.width.has) => ~dec.ok
                  /\ ~(a.h.has \/ a.height.has) => ~dec.ok
                  /\ ((a.w.has \/ a.width.has) /\ (a.h.has \/ a.height.has)) =>
                         (dec.ok \/ dec.error \notin SizeErrors)

-----------------------------------------------------------------------------
(* C11: while decoding a container document the only conditions recovered  *)
(* locally are a contour of 2 points or fewer (dropped) and missing        *)
(* optional metadata (defaulted to empty); every other parsing or geometry *)
(* error in a path element, path data that cannot be parsed included,      *)
(* aborts the decode and reaches the caller: no source is produced with    *)
(* that element's annotations missing.                                     *)

\* The element has an error: its path data cannot be parsed, an item of its
\* style has no ':', or it draws a contour and its style has no stroke.
PathElementError(p, scale) ==
    \/ ~p.d.parsed
    \/ ~StyleOk(p.style)
    \/ (SvgPathToContour(p.d, scale).ok
          /\ SvgPathToContour(p.d, scale).contours # <<>>
          /\ ~HasStroke(p.style))

C11_PathErrorsAbortDecode ==
    (scenario = "paths" /\ dec # None) =>
        LET scale == ParseMetadata(doc).scale
        IN IF \E i \in 1..Len(doc.paths) : PathElementError(doc.paths[i], scale)
           THEN ~dec.ok
           ELSE dec.ok /\ dec.metadata = EmptyDict

-----------------------------------------------------------------------------
(* C12: for every sub-path the contour of _svg_path_to_contour holds every *)
(* segment anchor point in path order, the start of the first segment and  *)
(* the end of each segment: an open sub-path of n connected segments with  *)
(* n+1 distinct anchors gives n+1 points and is kept whenever n+1 > 2.     *)

\* The anchors of a sub-path: the start of its first segment, then the end
\* of each of its segments.
Anchors(sp) == <<sp[1].start>> \o [k \in 1..Len(sp) |-> sp[k].end]

OpenSubPath(sp) ==
    Cardinality({ Anchors(sp)[k] : k \in 1..(Len(sp) + 1) }) = Len(sp) + 1

\* The anchors as pixel points, scaled as the extractor scales its points.
AnchorContour(sp, scale) ==
    [k \in 1..(Len(sp) + 1) |-> <<Unscale(Anchors(sp)[k][1], scale[1]),
                                  Unscale(Anchors(sp)[k][2], scale[2])>>]

C12_ContourHoldsEveryAnchor ==
    (scenario = "path" /\ ctrOut # None /\ pathData.parsed /\ ctrOut.ok) =>
        LET subs == SubPaths(pathData.segs)
            scale == ScaleInSvg(svgShape, jpgShape)
        IN (\A j \in 1..Len(subs) : OpenSubPath(subs[j])) =>
               ctrOut.contours =
                   KeepContours([j \in 1..Len(subs) |-> AnchorContour(subs[j], scale)])

-----------------------------------------------------------------------------
(* Image.to_svg and Image.to_png on the file system                        *)
(*                                                                         *)
(* A path is [dir, id]; a file's content is [k, doc].  A call is one       *)
(* action; `fault` names the step of the call that raises, or is "none".   *)
(* The error that reaches the caller is named after the step that raised   *)
(* it, or is "FileNotFoundError" where os.remove raised it.                *)

NumTmp == 3

\* The path the caller publishes to.
Targets == { [dir |-> "out", id |-> 1] }

TmpNames == { [dir |-> "tmp", id |-> i] : i \in 1..NumTmp }

Paths == Targets \cup TmpNames

NoDoc == [wellFormed |-> FALSE, images |-> <<>>, stickies |-> <<>>, paths |-> <<>>]

NoFile == [k |-> "absent", doc |-> NoDoc]

OldFile == [k |-> "old", doc |-> NoDoc]

\* A file left half-written.
PartialFile == [k |-> "partial", doc |-> NoDoc]

SvgFile(d) == [k |-> "svg", doc |-> d]

\* The transparent raster svg2png renders from the overlay document.
OverlayPng(d) == [k |-> "overlay", doc |-> d]

\* The overlay composited over the source bitmap.
PngFile(d) == [k |-> "png", doc |-> d]

Exists(files, p) == files[p].k # "absent"

FreeNames(files) == { t \in TmpNames : ~Exists(files, t) }

\* tempfile.mktemp: a name no file has.  The names are interchangeable;
\* the n-th call of an operation takes the n-th free name.
Mktemp(files, n) ==
    CHOOSE t \in FreeNames(files) :
        Cardinality({ u \in FreeNames(files) : u.id < t.id }) = n - 1

\* The steps of to_svg that can raise, in order: self.read() (302),
\* self.metadata (304-305), _img_buffer (310), open(tmp_svg) (312), the
\* writes (313-326), a.svg_element() (325), shutil.move (328) before it
\* touched the target, and shutil.move in the middle of its copy.
SvgBuildFaults == {"read", "metadata", "img_buffer", "open", "write", "annotation"}

SvgFaults == SvgBuildFaults \cup {"move", "move_partial"}

\* The steps of to_png after its to_svg call: svg2png (341), PIL.Image.open
\* (343), cv2.resize(self.read()) (344), alpha_composite (348), save (349),
\* shutil.move (350) before and in the middle of its copy.
PngFaults == {"svg2png", "png_open", "resize", "composite", "save",
              "png_move", "png_move_partial"}

SvgFaultApplies(source, includeMetadata, fault) ==
    /\ fault = "metadata" => includeMetadata
    /\ fault = "annotation" => source.annotations # <<>>

\* A variant of os.remove + raise that leaves the file in place.
RemoveThenRaiseKeep(files, tmp, e) == [fs |-> files, raised |-> e]

\* Lines 330-332 and 351-352: os.remove(tmp), which raises
\* FileNotFoundError if there is no such file, then the pending error.
RemoveThenRaise(files, tmp, e) ==
    IF Exists(files, tmp)
    THEN [fs |-> [files EXCEPT ![tmp] = NoFile], raised |-> e]
    ELSE [fs |-> files, raised |-> "FileNotFoundError"]

\* Lines 301-328: the files at the point where `fault` raises.
ToSvgFailedAt(files, d, target, tmp, fault) ==
    IF fault \in {"read", "metadata", "img_buffer", "open"} THEN files
    ELSE IF fault \in {"write", "annotation"} THEN [files EXCEPT ![tmp] = PartialFile]
    ELSE IF fault = "move" THEN [files EXCEPT ![tmp] = SvgFile(d)]
    ELSE [files EXCEPT ![tmp] = SvgFile(d), ![target] = PartialFile]

\* Lines 296-332.
ToSvg(files, source, target, tmp, embedJpeg, includeMetadata, fault) ==
    LET d == ToSvgDocument(source, embedJpeg, includeMetadata)
    IN IF fault = "none"
       THEN [fs |-> [files EXCEPT ![tmp] = NoFile, ![target] = SvgFile(d)],
             raised |-> "none"]
       ELSE RemoveThenRaise(ToSvgFailedAt(files, d, target, tmp, fault), tmp, fault)

\* Lines 338-350: the files and the pending error at the end of the try
\* block of to_png.
ToPngBody(files, source, target, tmpPng, tmpSvg, tmpInner, fault) ==
    LET inner == ToSvg(files, source, tmpSvg, tmpInner, FALSE, FALSE,
                       IF fault \in SvgFaults THEN fault ELSE "none")
        overlay == ToSvgDocument(source, FALSE, FALSE)
        rendered == [inner.fs EXCEPT ![tmpPng] = OverlayPng(overlay)]
    IN IF inner.raised # "none" THEN inner
       ELSE IF fault = "svg2png" THEN [fs |-> inner.fs, raised |-> fault]
       ELSE IF fault \in {"png_open", "resize", "composite"}
       THEN [fs |-> rendered, raised |-> fault]
       ELSE IF fault = "save"
       THEN [fs |-> [rendered EXCEPT ![tmpPng] = PartialFile], raised |-> fault]
       ELSE IF fault = "png_move"
       THEN [fs |-> [rendered EXCEPT ![tmpPng] = PngFile(overlay)], raised |-> fault]
       ELSE IF fault = "png_move_partial"
       THEN [fs |-> [rendered EXCEPT ![tmpPng] = PngFile(overlay), ![target] = PartialFile],
             raised |-> fault]
       ELSE [fs |-> [rendered EXCEPT ![tmpPng] = NoFile, ![target] = PngFile(overlay)],
             raised |-> "none"]

\* Lines 334-352: the try block, then finally: os.remove(tmp_svg).
ToPng(files, source, target, tmpPng, tmpSvg, tmpInner, fault) ==
    LET body == ToPngBody(files, source, target, tmpPng, tmpSvg, tmpInner, fault)
    IN RemoveThenRaise(body.fs, tmpSvg, body.raised)

WriterSources ==
    { [metadata |-> ExifMeta, annotations |-> a, shape |-> <<2, 4>>] :
          a \in { <<>>, << [contour |-> Square, stroke |-> "#ff0000"] >> } }

InitWriter ==
    /\ scenario = "writer"
    /\ src \in WriterSources
    /\ fs \in [Paths -> {NoFile, OldFile}]
    /\ \A t \in TmpNames : fs[t] = NoFile
    /\ last = None
    /\ IdleIdentity
    /\ IdlePath
    /\ IdleSource
    /\ IdleTag
    /\ IdleCache

CallToSvg ==
    /\ scenario = "writer"
    /\ FreeNames(fs) # {}
    /\ \E target \in Targets, embedJpeg \in BOOLEAN,
          includeMetadata \in BOOLEAN, fault \in SvgFaults \cup {"none"} :
          /\ fault # "none" => SvgFaultApplies(src, includeMetadata, fault)
          /\ LET tmp == Mktemp(fs, 1)
                 out == ToSvg(fs, src, target, tmp, embedJpeg, includeMetadata, fault)
             IN /\ fs' = out.fs
                /\ last' = [op |-> "to_svg", target |-> target, temps |-> {tmp},
                            tmpSvg |-> tmp, tmpPng |-> tmp, before |-> fs[target],
                            fault |-> fault, raised |-> out.raised]
    /\ UNCHANGED <<scenario, idVars, pathVars, decVars, tagVars, cacheVars>>

CallToPng ==
    /\ scenario = "writer"
    /\ Cardinality(FreeNames(fs)) >= 3
    /\ \E target \in Targets, fault \in SvgFaults \cup PngFaults \cup {"none"} :
          /\ fault \in SvgFaults => SvgFaultApplies(src, FALSE, fault)
          /\ LET tmpPng == Mktemp(fs, 1)
                 tmpSvg == Mktemp(fs, 2)
                 tmpInner == Mktemp(fs, 3)
                 out == ToPng(fs, src, target, tmpPng, tmpSvg, tmpInner, fault)
             IN /\ fs' = out.fs
                /\ last' = [op |-> "to_png", target |-> target,
                            temps |-> {tmpPng, tmpSvg, tmpInner},
                            tmpSvg |-> tmpSvg, tmpPng |-> tmpPng, before |-> fs[target],
                            fault |-> fault, raised |-> out.raised]
    /\ UNCHANGED <<scenario, idVars, pathVars, decVars, tagVars, cacheVars>>

SpecWriter == InitWriter /\ [][CallToSvg \/ CallToPng]_vars

-----------------------------------------------------------------------------
(* C1: if to_svg fails at any step of building the document, the file at   *)
(* the target path is as it was before the call (absent if it never        *)
(* existed) and no temporary file the call created remains.                *)

C1_FailedWriteLeavesNoTrace ==
    (last # None /\ last.op = "to_svg" /\ last.fault \in SvgBuildFaults) =>
        /\ last.raised # "none"
        /\ fs[last.target] = last.before
        /\ \A t \in last.temps : ~Exists(fs, t)

C1_Witness ==
    /\ last # None
    /\ last.op = "to_svg"
    /\ last.fault = "annotation"
    /\ last.before = OldFile
    /\ fs[last.target] = OldFile
    /\ \A t \in TmpNames : ~Exists(fs, t)

-----------------------------------------------------------------------------
(* C7: when to_svg or to_png fails at any step, also one before its        *)
(* temporary file exists, the error that reaches the caller is the         *)
(* originating error and not one raised by the cleanup.                    *)

C7_OriginatingErrorReachesCaller ==
    (last # None /\ last.fault # "none") => last.raised = last.fault

-----------------------------------------------------------------------------
(* C8: after to_png returns or fails at any step, neither its temporary    *)
(* overlay document nor its temporary raster file remains on disk.         *)

C8_FlattenerLeavesNoTemporary ==
    (last # None /\ last.op = "to_png") =>
        /\ ~Exists(fs, last.tmpSvg)
        /\ ~Exists(fs, last.tmpPng)

-----------------------------------------------------------------------------
(* Image.tag_detector_version with the md5 and metadata properties         *)

MaxCalls == 3

\* The contents the image file takes, and utils.md5 of each.
Contents == {1, 2}

Md5Of(c) == PyStr(IF c = 1 THEN "9e107d9d" ELSE "e4d909c2")

AlgoNames == {"uid", "sid"}

AlgoVersions == {"v1", "v2"}

\* A variant of the md5 property that hashes the file at every access.
Md5PropertyRecompute(obj, content) == Md5Of(content)

\* Lines 207-211: the md5 property, the hash kept in _md5 once computed.
Md5Property(obj, content) ==
    IF obj._md5 = None THEN Md5Of(content) ELSE obj._md5

\* Lines 267-271 with _decode_metadata (273-289) on a photograph whose
\* EXIF holds the custom Make literal.
MetadataProperty(obj) ==
    IF obj._metadata = None THEN ExifMeta ELSE obj._metadata

\* The filenames of the tagged sources: one that parses, one of two fields.
TagFilenames == {GoodFilename, Join(<<GoodDevice, GoodTime>>, ".")}

InitTag ==
    /\ scenario = "tag"
    /\ img \in { [_filename |-> f, _metadata |-> m, _md5 |-> None] :
                     f \in TagFilenames, m \in {None, ExifMeta} }
    /\ imgFile \in Contents
    /\ tagHist = [calls |-> 0, returned |-> 0, run |-> 0, args |-> <<"", "">>,
                  snap |-> None, hashed |-> 0, lastContent |-> 0, raised |-> ""]
    /\ IdleIdentity
    /\ IdlePath
    /\ IdleDecode
    /\ IdleFiles
    /\ IdleCache

\* Lines 181-187.  The hash is stored under 'md5' (184) before the filename
\* is parsed (185), so a call that raises there leaves the hash written.
TagDetectorVersion ==
    /\ scenario = "tag"
    /\ tagHist.calls < MaxCalls
    /\ \E name \in AlgoNames, version \in AlgoVersions :
          LET hash == Md5Property(img, imgFile)
              base == MetadataProperty(img)
              info == DeviceDatetimeInfo(img._filename)
              meta == IF info.ok
                      THEN TagMetadata(base, hash, img._filename, name, version)
                      ELSE [base EXCEPT !["md5"] = hash]
              sameRun == tagHist.run > 0 /\ tagHist.args = <<name, version>>
              hashed == IF img._md5 = None THEN imgFile ELSE tagHist.hashed
          IN /\ img' = [img EXCEPT !._metadata = meta, !._md5 = hash]
             /\ tagHist' =
                  IF info.ok
                  THEN [calls |-> tagHist.calls + 1,
                        returned |-> tagHist.returned + 1,
                        run |-> IF sameRun THEN tagHist.run + 1 ELSE 1,
                        args |-> <<name, version>>,
                        snap |-> IF sameRun THEN tagHist.snap ELSE meta,
                        hashed |-> hashed,
                        lastContent |-> imgFile,
                        raised |-> ""]
                  ELSE [tagHist EXCEPT !.calls = tagHist.calls + 1,
                                       !.hashed = hashed,
                                       !.raised = info.error]
    /\ UNCHANGED <<scenario, idVars, pathVars, decVars, fsVars, imgFile, cacheVars>>

\* Lines 207-211: another reader of the md5 property.
ReadMd5 ==
    /\ scenario = "tag"
    /\ img._md5 = None
    /\ img' = [img EXCEPT !._md5 = Md5Property(img, imgFile)]
    /\ tagHist' = [tagHist EXCEPT !.hashed = imgFile]
    /\ UNCHANGED <<scenario, idVars, pathVars, decVars, fsVars, imgFile, cacheVars>>

\* The file at _path is rewritten by another program.
ModifyFile ==
    /\ scenario = "tag"
    /\ \E c \in Contents \ {imgFile} : imgFile' = c
    /\ UNCHANGED <<scenario, idVars, pathVars, decVars, fsVars, img, tagHist, cacheVars>>

SpecTag == InitTag /\ [][TagDetectorVersion \/ ReadMd5 \/ ModifyFile]_vars

-----------------------------------------------------------------------------
(* C9 as stated: tag_detector_version is idempotent (after any number of   *)
(* calls with the same name and version the metadata is the metadata after *)
(* one call), the metadata holds device, datetime, algo_name, algo_version *)
(* and md5, and each call computes the hash and the identity it writes     *)
(* from the source's current content, not from a value stored earlier.     *)

TagKeys == {"device", "datetime", "algo_name", "algo_version", "md5"}

TaggedIdempotently ==
    /\ img._metadata = tagHist.snap
    /\ TagKeys \subseteq KeysOf(img._metadata)
    /\ img._metadata["algo_name"] = PyStr(tagHist.args[1])
    /\ img._metadata["algo_version"] = PyStr(tagHist.args[2])
    /\ img._metadata["device"] = PyText(DeviceDatetimeInfo(img._filename).device)
    /\ img._metadata["datetime"] = PyDatetime(DeviceDatetimeInfo(img._filename).datetime)

C9_TagRecomputesHash ==
    (scenario = "tag" /\ tagHist.returned >= 1) =>
        /\ TaggedIdempotently
        /\ img._metadata["md5"] = Md5Of(tagHist.lastContent)

(* C9 as amended: tag_detector_version is idempotent and, once a call has  *)
(* returned, the metadata holds the five keys; the identity is read from   *)
(* the filename at every call, while the hash is computed at the first use *)
(* of the md5 property and that stored value is written by every later     *)
(* call, also after the file's content has changed.                        *)
C9_TagIdempotentCachedHash ==
    (scenario = "tag" /\ tagHist.returned >= 1) =>
        /\ TaggedIdempotently
        /\ img._metadata["md5"] = Md5Of(tagHist.hashed)

C9_Witness ==
    /\ scenario = "tag"
    /\ tagHist.run >= 2
    /\ tagHist.lastContent # tagHist.hashed
    /\ img._metadata = tagHist.snap
    /\ img._metadata["md5"] = Md5Of(tagHist.hashed)

-----------------------------------------------------------------------------
(* read and clear_cache of Image, SVGImage, ArrayImage and BufferImage     *)

Kinds == {"file", "svg", "array", "buffer"}

\* The contents the backing store takes: the file at _path, the bitmap
\* embedded in the document, the array handed in, the bytes of the buffer.
StoreContents == {1, 2}

\* The pixel array decoded from a backing store of content c.
Pixels(c) == [shape |-> <<2, 4>>, data |-> c]

\* Lines 261-265 and 503-507 (cv2.imread, cv2.imdecode); the array-backed
\* source holds the array itself.
GetArray(c) == Pixels(c)

\* Lines 249-259: Image.read, which SVGImage inherits.
ImageRead(obj, c, cache) ==
    LET hit == obj._cached_image # None
        im == IF hit THEN obj._cached_image ELSE GetArray(c)
    IN [obj |-> [obj EXCEPT !._cached_image = IF cache /\ ~hit THEN im ELSE @,
                            !._shape = im.shape],
        ret |-> im, decoded |-> ~hit]

\* Lines 546-548: ArrayImage.read returns the array it was built from.
ArrayRead(obj, c, cache) ==
    [obj |-> [obj EXCEPT !._shape = obj._array.shape],
     ret |-> obj._array, decoded |-> TRUE]

\* Lines 569-578: BufferImage.read keeps the decoded array in _array.
BufferRead(obj, c, cache) ==
    IF obj._array # None
    THEN [obj |-> obj, ret |-> obj._array, decoded |-> FALSE]
    ELSE LET array == GetArray(c)
         IN [obj |-> [obj EXCEPT !._array = IF cache THEN array ELSE @,
                                 !._shape = array.shape],
             ret |-> array, decoded |-> TRUE]

ReadOf(obj, c, cache) ==
    CASE obj.kind \in {"file", "svg"} -> ImageRead(obj, c, cache)
      [] obj.kind = "array" -> ArrayRead(obj, c, cache)
      [] obj.kind = "buffer" -> BufferRead(obj, c, cache)

\* Lines 243-247: Image.clear_cache, inherited by every variant.
ClearCacheOf(obj) == [obj EXCEPT !._cached_image = None]

\* Lines 129-139, 531-541, 552-563: the constructors.
NewSource(kind, c) ==
    [kind |-> kind, _cached_image |-> None,
     _array |-> IF kind = "array" THEN Pixels(c) ELSE None,
     _shape |-> None]

InitCache ==
    /\ scenario = "cache"
    /\ backing \in StoreContents
    /\ pix \in { NewSource(k, backing) : k \in Kinds }
    /\ reads = [op |-> "none", ret |-> None, decoded |-> FALSE, stored |-> 0,
                afterClear |-> FALSE, cleared |-> FALSE]
    /\ IdleIdentity
    /\ IdlePath
    /\ IdleDecode
    /\ IdleFiles
    /\ IdleTag

Read ==
    /\ scenario = "cache"
    /\ \E cache \in BOOLEAN :
          LET r == ReadOf(pix, backing, cache)
          IN /\ pix' = r.obj
             /\ reads' = [op |-> "read", ret |-> r.ret, decoded |-> r.decoded,
                          stored |-> backing, afterClear |-> reads.cleared,
                          cleared |-> FALSE]
    /\ UNCHANGED <<scenario, idVars, pathVars, decVars, fsVars, tagVars, backing>>

ClearCache ==
    /\ scenario = "cache"
    /\ pix' = ClearCacheOf(pix)
    /\ reads' = [op |-> "clear_cache", ret |-> None, decoded |-> FALSE,
                 stored |-> backing, afterClear |-> FALSE, cleared |-> TRUE]
    /\ UNCHANGED <<scenario, idVars, pathVars, decVars, fsVars, tagVars, backing>>

\* The backing store is rewritten: the file or the buffer by its owner,
\* the array in place.
ModifyStore ==
    /\ scenario = "cache"
    /\ \E c \in StoreContents \ {backing} :
          /\ backing' = c
          /\ pix' = IF pix.kind = "array" THEN [pix EXCEPT !._array = Pixels(c)] ELSE pix
    /\ UNCHANGED <<scenario, idVars, pathVars, decVars, fsVars, tagVars, reads>>

SpecCache == InitCache /\ [][Read \/ ClearCache \/ ModifyStore]_vars

-----------------------------------------------------------------------------
(* C13: for every source variant (file, container document, array,         *)
(* buffer), after any sequence of read calls with or without caching,      *)
(* clear_cache leaves the source with no cached decoded pixel array, and   *)
(* the next read obtains the pixels from the backing store again.          *)

\* The decoded arrays the source keeps besides its backing store.
CachedPixels(obj) ==
    {obj._cached_image} \cup (IF obj.kind = "buffer" THEN {obj._array} ELSE {})

C13_ClearCacheInvalidates ==
    scenario = "cache" =>
        /\ reads.cleared => CachedPixels(pix) = {None}
        /\ (reads.op = "read" /\ reads.afterClear) =>
               /\ reads.decoded
               /\ reads.ret = Pixels(reads.stored)

-----------------------------------------------------------------------------
(* The program as a whole: one of the scenarios above.                     *)

Init ==
    \/ InitIdentity
    \/ InitPath
    \/ InitDecode
    \/ InitRoundTrip
    \/ InitWriter
    \/ InitTag
    \/ InitPaths
    \/ InitCache

Next ==
    \/ ParseIdentity
    \/ ExtractContours
    \/ WriteContainer
    \/ DecodeContainer
    \/ CallToSvg
    \/ CallToPng
    \/ TagDetectorVersion
    \/ ReadMd5
    \/ ModifyFile
    \/ Read
    \/ ClearCache
    \/ ModifyStore

Spec == Init /\ [][Next]_vars

=============================================================================
